---- MODULE Spec2Model ----
(***************************************************************************)
(* A model of qsv's `schema` profile-cache orchestrator                    *)
(* (src/src/cmd/schema.rs, get_stats_records) and of the adaptive record   *)
(* counter (src/src/cmd/count.rs: run, count_input, polars_count_input).   *)
(*                                                                         *)
(* Three specifications share the variables:                               *)
(*   SpecCache  the input file, its stats.csv.bin.sz cache and the runs    *)
(*              of get_stats_records against them;                         *)
(*   SpecCount  a CSV input, its index, and the runs of `count`;           *)
(*   SpecSchema the columns of a CSV input and the runs of `schema` that   *)
(*              assemble and write its JSON Schema document.               *)
(***************************************************************************)
EXTENDS Integers, Sequences, FiniteSets, TLC

\* Bounds of the model.
MaxTime == 2
MaxRows == 2
MaxFields == 2
MaxBytes == 2

VARIABLES
    clock,          \* the file system's current time
    input_mtime,    \* modification time of the input file
    cache,          \* the <input>.stats.csv.bin.sz file
    stats_run,      \* what the latest get_stats_records call saw and did
    input,          \* the CSV data: a sequence of rows
    index,          \* the index file of the CSV input
    temp_file,      \* the temporary file the count invocation made for stdin
    count_run,      \* what the count invocation was given and returned
    count_pc,       \* where the count invocation is: idle, query, done
    count_args,     \* the command line of the invocation in its query
    schema_input,   \* the columns of the CSV input given to `schema`
    schema_args,    \* the options of the `schema` invocation
    schema_run,     \* what the `schema` invocation did and wrote
    schema_rerun,   \* the same for a second invocation, nothing changed
    schema_pc,      \* how many `schema` invocations have run: 0, 1, 2
    pseudo_input,   \* the records of the CSV input given to `pseudo`
    pseudo_run,     \* what the `pseudo` invocation was given and wrote
    dir_mtime,      \* modification times of the input files of a directory
    dir_cache,      \* the stats cache files of that directory, by path
    dir_run,        \* the latest get_stats_records call in that directory
    race_pc,        \* where each of the concurrent invocations is
    race_file,      \* the stats cache file the invocations share
    race_got        \* what each concurrent invocation decoded

vars ==
    <<clock, input_mtime, cache, stats_run,
      input, index, temp_file, count_run, count_pc, count_args,
      schema_input, schema_args, schema_run, schema_rerun, schema_pc,
      pseudo_input, pseudo_run, dir_mtime, dir_cache, dir_run,
      race_pc, race_file, race_got>>

cacheVars == <<clock, input_mtime, cache, stats_run>>
countVars == <<input, index, temp_file, count_run, count_pc, count_args>>
schemaVars ==
    <<schema_input, schema_args, schema_run, schema_rerun, schema_pc>>

pseudoVars == <<pseudo_input, pseudo_run>>
dirVars == <<dir_mtime, dir_cache, dir_run>>
raceVars == <<race_pc, race_file, race_got>>
laterVars == <<pseudoVars, dirVars, raceVars>>

\* No `pseudo` invocation, no directory and no concurrent invocations.
InitLaterVars ==
    /\ pseudo_input = <<>>
    /\ pseudo_run = [outcome |-> "none"]
    /\ dir_mtime = <<>>
    /\ dir_cache = <<>>
    /\ dir_run = [ran |-> FALSE]
    /\ race_pc = <<>>
    /\ race_file = [state |-> "none"]
    /\ race_got = <<>>

\* No `schema` invocation yet.
NoSchemaArgs ==
    [enum_threshold |-> 0, strict_dates |-> FALSE, pattern_columns |-> {}]

NoSchemaRun == [outcome |-> "none"]

InitSchemaVars ==
    /\ schema_input = <<>>
    /\ schema_args = NoSchemaArgs
    /\ schema_run = NoSchemaRun
    /\ schema_rerun = NoSchemaRun
    /\ schema_pc = 0

(***************************************************************************)
(* Profile cache: schema.rs, get_stats_records.                            *)
(***************************************************************************)

\* The cache file: absent, or present with a modification time in
\* 0..MaxTime and a content that bincode either decodes (good) or not.
NoCache == [exists |-> FALSE, mtime |-> 0, good |-> FALSE]

StatsMode == {"Schema", "Frequency", "FrequencyForceStats", "None"}

NoStatsRun ==
    [ran |-> FALSE, mode |-> "None", force |-> FALSE, exists |-> FALSE,
     cmp |-> "older", good |-> FALSE, child_ok |-> FALSE,
     loaded |-> FALSE, decodes |-> 0, spawns |-> 0, result |-> "empty"]

\* How the cache's modification time compares with the input's.
Compare(a, b) == IF a > b THEN "newer" ELSE IF a = b THEN "equal" ELSE "older"

\* stats_bin_current, lines 470-485, with >= in place of >.
stats_bin_current_ge(c, in_mtime) == c.exists /\ c.mtime >= in_mtime

\* stats_bin_current, lines 470-485.
stats_bin_current(c, in_mtime) == c.exists /\ c.mtime > in_mtime

\* Lines 487-491: the modes that return an empty result before any load.
returns_early(mode, current) ==
    mode = "None" \/ (mode = "Frequency" /\ ~current)

\* Line 498: the guard of the first decode.
first_decode_tried(current, force) == current /\ ~force

\* The child `stats` run (lines 580-583): it overwrites the cache when it
\* succeeds and leaves the file system alone when it fails; its exit status
\* is not looked at (_stats_output).
stats_child(c, now, child_ok) ==
    IF child_ok THEN [exists |-> TRUE, mtime |-> now, good |-> TRUE] ELSE c

\* Lines 589-598 with the decode error swallowed.
second_decode_lenient(c2) == "ok"

\* Lines 585-598: open the cache the child wrote and decode it.
second_decode(c2) ==
    IF ~c2.exists THEN "err_open"
    ELSE IF c2.good THEN "ok" ELSE "err_decode"

\* get_stats_records, lines 437-629: what it does to the cache and returns.
get_stats_records(c, in_mtime, now, mode, force, child_ok) ==
    LET current == stats_bin_current(c, in_mtime)
        tried == first_decode_tried(current, force)
        loaded == tried /\ c.good
        c2 == stats_child(c, now, child_ok)
    IN  IF returns_early(mode, current)
        THEN [cache |-> c, loaded |-> FALSE, decodes |-> 0, spawns |-> 0,
              result |-> "empty"]
        ELSE IF loaded
        THEN [cache |-> c, loaded |-> TRUE, decodes |-> 1, spawns |-> 0,
              result |-> "ok"]
        ELSE [cache |-> c2, loaded |-> FALSE,
              decodes |-> (IF tried THEN 1 ELSE 0)
                          + (IF c2.exists THEN 1 ELSE 0),
              spawns |-> 1, result |-> second_decode(c2)]

InitCacheVars ==
    /\ clock = 0
    /\ input_mtime = 0
    /\ cache = NoCache
    /\ stats_run = NoStatsRun

\* Time passes.
Tick ==
    /\ clock < MaxTime
    /\ clock' = clock + 1
    /\ UNCHANGED <<input_mtime, cache, stats_run, countVars, schemaVars,
                 laterVars>>

\* The input file is modified or touched: any modification time.
TouchInput ==
    /\ \E t \in 0..MaxTime : input_mtime' = t
    /\ UNCHANGED <<clock, cache, stats_run, countVars, schemaVars,
                 laterVars>>

\* The cache file is touched: any modification time, content kept.
TouchCache ==
    /\ cache.exists
    /\ \E t \in 0..MaxTime : cache' = [cache EXCEPT !.mtime = t]
    /\ UNCHANGED <<clock, input_mtime, stats_run, countVars, schemaVars,
                 laterVars>>

\* The cache file is overwritten with bytes bincode cannot decode.
CorruptCache ==
    /\ cache' = [exists |-> TRUE, mtime |-> clock, good |-> FALSE]
    /\ UNCHANGED <<clock, input_mtime, stats_run, countVars, schemaVars,
                 laterVars>>

\* The cache file is deleted.
RemoveCache ==
    /\ cache.exists
    /\ cache' = NoCache
    /\ UNCHANGED <<clock, input_mtime, stats_run, countVars, schemaVars,
                 laterVars>>

\* One call of get_stats_records, whole.
GetStatsRecords ==
    \E mode \in StatsMode, force \in BOOLEAN, child_ok \in BOOLEAN :
        \E r \in {get_stats_records(cache, input_mtime, clock, mode, force,
                                    child_ok)} :
            /\ cache' = r.cache
            /\ stats_run' =
                [ran |-> TRUE, mode |-> mode, force |-> force,
                 exists |-> cache.exists,
                 cmp |-> Compare(cache.mtime, input_mtime),
                 good |-> cache.good, child_ok |-> child_ok,
                 loaded |-> r.loaded, decodes |-> r.decodes,
                 spawns |-> r.spawns, result |-> r.result]
            /\ UNCHANGED <<clock, input_mtime, countVars, schemaVars,
                 laterVars>>

(***************************************************************************)
(* Record counter: count.rs.                                               *)
(***************************************************************************)

\* A row as the reader hands it over: its number of fields (record.len())
\* and the bytes of its field data (record.as_slice().len()).  Rows hold no
\* quoted fields, so they read the same with quoting on and off (line 78),
\* and a row of one empty field is a blank line, which the reader skips.
Row == {r \in [nf : 1..MaxFields, nb : 0..MaxBytes] : r.nf > 1 \/ r.nb > 0}

Files == UNION {[1..n -> Row] : n \in 0..MaxRows}

\* csv::ByteRecord::new(), and the record after a read at end of input.
EmptyRecord == [nf |-> 0, nb |-> 0]

\* The index file: absent, fresh (built from the input as it is now: it
\* stores the input's number of rows) or stale (built from an older
\* content).
NoIndex == [status |-> "absent", rows |-> 0]

Indexes(rows) ==
    {NoIndex, [status |-> "fresh", rows |-> Len(rows)]}
        \cup [status : {"stale"}, rows : 0..MaxRows]

\* The command line and the Config made of it (lines 63-80): plain is a
\* comma delimiter with no comment character; snappy is a .sz input path.
Args ==
    {a \in [width : BOOLEAN, flexible : BOOLEAN, no_headers : BOOLEAN,
            no_polars : BOOLEAN, low_memory : BOOLEAN, stdin : BOOLEAN,
            snappy : BOOLEAN, plain : BOOLEAN] : a.stdin => ~a.snappy}

\* Rows whose numbers of fields differ: the reader's UnequalLengths error
\* unless it is flexible.
Ragged(rows) == \E i, j \in DOMAIN rows : rows[i].nf # rows[j].nf

\* The records conf.reader() yields: the first row is the header row
\* unless no_headers is set.
Records(rows, no_headers) ==
    IF no_headers \/ rows = <<>> THEN rows ELSE Tail(rows)

\* usize::saturating_sub, line 156.
saturating_sub(a, b) == IF a > b THEN a - b ELSE 0

\* The loop of lines 158-165 with max_width set to every record's width.
RECURSIVE width_loop_keeps_last(_, _, _)
width_loop_keeps_last(recs, count, max_width) ==
    IF recs = <<>> THEN [count |-> count, max_width |-> max_width]
    ELSE width_loop_keeps_last(Tail(recs), count + 1, Head(recs).nb)

\* The loop of lines 158-165: count and max_width after reading recs.
RECURSIVE width_loop(_, _, _)
width_loop(recs, count, max_width) ==
    IF recs = <<>> THEN [count |-> count, max_width |-> max_width]
    ELSE width_loop(Tail(recs), count + 1,
                    IF Head(recs).nb > max_width
                    THEN Head(recs).nb ELSE max_width)

\* The loop of lines 167-169.
RECURSIVE count_loop(_, _)
count_loop(recs, count) ==
    IF recs = <<>> THEN count ELSE count_loop(Tail(recs), count + 1)

\* count_input, lines 135-174, on the rows its reader yields.
count_input(rows, no_headers, flexible, compute_width) ==
    LET recs == Records(rows, no_headers)
        first == IF recs = <<>> THEN EmptyRecord ELSE Head(recs)
        rest == IF recs = <<>> THEN <<>> ELSE Tail(recs)
        w == width_loop(rest, 1, first.nb)
    IN  IF ~flexible /\ Ragged(rows)
        THEN [ok |-> FALSE, count |-> 0, width |-> 0]
        ELSE IF compute_width
        THEN [ok |-> TRUE, count |-> w.count,
              width |-> w.max_width + saturating_sub(first.nf, 1)]
        ELSE [ok |-> TRUE, count |-> count_loop(recs, 0), width |-> 0]

\* The accelerated engine (Polars), an external service.  The query is
\* either the read_csv() table function or a LazyCsvReader plan (line 222).
query_plan(a) == IF a.plain /\ ~a.low_memory THEN "sql" ELSE "lazy"

\* Where the engine can fail: building the plan (line 234), executing the
\* query (line 261), collecting the result, reading the "len" column as
\* u32 (line 270), and taking its first value (line 271).
EngineFailures == {"build", "execute", "collect", "dtype", "get"}

\* What the engine can do with a file.  It has no data to infer a schema
\* from in an empty file and fails where it first opens it; any other file
\* it counts, unless it fails at one of its stages.
EngineOutcomes(rows, plan) ==
    IF rows = <<>>
    THEN (IF plan = "lazy" THEN {"build"} ELSE {"execute"})
    ELSE {"ok", "execute", "collect", "dtype", "get"}
            \cup (IF plan = "lazy" THEN {"build"} ELSE {})

\* The engine's COUNT(*): it takes the first row as the header row.
EngineCount(rows) == Len(rows) - 1

\* What a reader made from conf yields inside polars_count_input: the copy
\* of lines 193-195 has read standard input to its end.
rows_after_copy(rows, a) == IF a.stdin THEN <<>> ELSE rows

\* polars_count_input, lines 177-293.  temp is the state of the temporary
\* file of lines 191-203 when the function returns.
polars_count_input(rows, a, conf_flexible, outcome) ==
    LET kept == IF a.stdin THEN "exists" ELSE "none"
        removed == IF a.stdin THEN "removed" ELSE "none"
        regular == count_input(rows_after_copy(rows, a), a.no_headers,
                               conf_flexible, FALSE)
        comp == IF a.no_headers THEN 1 ELSE 0
        base == [plan |-> query_plan(a), engine |-> outcome, width |-> 0]
    IN  CASE outcome \in {"build", "execute"} ->
                \* lines 237-241 and 263-267: early return
                IF regular.ok
                THEN base @@ [ok |-> TRUE, err |-> "none", scans |-> 1,
                              count |-> regular.count, temp |-> kept]
                ELSE base @@ [ok |-> FALSE, err |-> "csv", scans |-> 1,
                              count |-> 0, temp |-> kept]
          [] outcome \in {"collect", "get"} ->
                \* the ? of lines 270 and 271
                base @@ [ok |-> FALSE, err |-> "engine", scans |-> 0,
                         count |-> 0, temp |-> kept]
          [] outcome = "dtype" ->
                \* lines 272-276, then 282-292
                IF regular.ok
                THEN base @@ [ok |-> TRUE, err |-> "none", scans |-> 1,
                              count |-> regular.count + comp,
                              temp |-> removed]
                ELSE base @@ [ok |-> FALSE, err |-> "csv", scans |-> 1,
                              count |-> 0, temp |-> kept]
          [] OTHER ->
                \* lines 270-271, then 282-292
                base @@ [ok |-> TRUE, err |-> "none", scans |-> 0,
                         count |-> EngineCount(rows) + comp,
                         temp |-> removed]

\* conf.indexed(): a fresh index is opened, a stale one is an error, and
\* standard input has none.
indexed(idx, a) ==
    IF a.stdin \/ idx.status = "absent" THEN "none"
    ELSE IF idx.status = "fresh" THEN "some" ELSE "err"

\* idx.count(): the records the index stores, its header row left out
\* unless no_headers is set.
idx_count(idx, no_headers) ==
    IF no_headers \/ idx.rows = 0 THEN idx.rows ELSE idx.rows - 1

\* Lines 93-96 with the stale index used instead of dropped.
index_status_keeps_stale(res) == IF res = "err" THEN "some" ELSE res

\* Lines 93-96: unwrap_or_else turns the error into None.
index_status(res) == IF res = "err" THEN "none" ELSE res

\* Line 90 with the flexible flag forgotten.
full_scan_required_width_only(a) == a.width

\* Line 90: --width or --flexible needs the regular CSV reader.
full_scan_required(a) == a.width \/ a.flexible

\* Line 107 (and the build without the polars feature folded into
\* no_polars, lines 113-114).
polars_disabled(a) == a.no_polars \/ a.snappy

\* The result of a call of count_input from run (lines 91, 108, 114).
scan_branch(rows, a, conf_flexible) ==
    LET r == count_input(rows, a.no_headers, conf_flexible, a.width)
    IN  [branch |-> "scan", plan |-> "none", engine |-> "none",
         ok |-> r.ok, err |-> IF r.ok THEN "none" ELSE "csv",
         scans |-> 1, count |-> r.count, width |-> r.width,
         temp |-> "none"]

\* run, lines 73-117: the strategy selection and what it returns.
run(rows, idx, a, outcome) ==
    LET conf_flexible == a.width \/ a.flexible
    IN  IF full_scan_required(a)
        THEN scan_branch(rows, a, conf_flexible)
        ELSE IF index_status(indexed(idx, a)) = "some"
        THEN [branch |-> "index", plan |-> "none", engine |-> "none",
              ok |-> TRUE, err |-> "none", scans |-> 0,
              count |-> idx_count(idx, a.no_headers), width |-> 0,
              temp |-> "none"]
        ELSE IF polars_disabled(a)
        THEN scan_branch(rows, a, conf_flexible)
        ELSE [branch |-> "polars"]
                @@ polars_count_input(rows, a, conf_flexible, outcome)

NoCountRun ==
    [ran |-> FALSE, width |-> FALSE, flexible |-> FALSE, no_headers |-> FALSE,
     stdin |-> FALSE, polars_off |-> FALSE, branch |-> "none",
     plan |-> "none", engine |-> "none", ok |-> TRUE, err |-> "none",
     scans |-> 0, count |-> 0, width_out |-> 0]

\* The command line of a finished or not yet started invocation.
NoArgs ==
    [width |-> FALSE, flexible |-> FALSE, no_headers |-> FALSE,
     no_polars |-> FALSE, low_memory |-> FALSE, stdin |-> FALSE,
     snappy |-> FALSE, plain |-> FALSE]

InitCountVars ==
    /\ input = <<>>
    /\ index = NoIndex
    /\ temp_file = "none"
    /\ count_run = NoCountRun
    /\ count_pc = "idle"
    /\ count_args = NoArgs

\* The branch run takes with the command line a (the engine's outcome does
\* not decide it).
branch_taken(rows, idx, a) == run(rows, idx, a, "ok").branch

\* What an invocation leaves in count_run.
count_record(a, r) ==
    [ran |-> TRUE, width |-> a.width, flexible |-> a.flexible,
     no_headers |-> a.no_headers, stdin |-> a.stdin,
     polars_off |-> polars_disabled(a), branch |-> r.branch,
     plan |-> r.plan, engine |-> r.engine, ok |-> r.ok, err |-> r.err,
     scans |-> r.scans, count |-> r.count, width_out |-> r.width]

\* One invocation of `qsv count` that does not reach the engine, whole:
\* run with the command line a on the input and index as they are.
CountRun ==
    /\ count_pc = "idle"
    /\ \E a \in Args :
        /\ branch_taken(input, index, a) # "polars"
        /\ \E r \in {run(input, index, a, "none")} :
            /\ count_run' = count_record(a, r)
            /\ temp_file' = r.temp
    /\ count_pc' = "done"
    /\ UNCHANGED <<input, index, count_args, cacheVars, schemaVars,
                 laterVars>>

\* An invocation that reaches polars_count_input, up to line 206: standard
\* input is copied into a temporary file that is kept.
PolarsBegin ==
    /\ count_pc = "idle"
    /\ \E a \in Args :
        /\ branch_taken(input, index, a) = "polars"
        /\ count_args' = a
        /\ temp_file' = IF a.stdin THEN "exists" ELSE "none"
    /\ count_pc' = "query"
    /\ UNCHANGED <<input, index, count_run, cacheVars, schemaVars,
                 laterVars>>

\* The rest of polars_count_input, lines 208-293: the engine does one of
\* the things it can do and the function returns.
PolarsFinish ==
    /\ count_pc = "query"
    /\ \E outcome \in EngineOutcomes(input, query_plan(count_args)) :
        \E r \in {run(input, index, count_args, outcome)} :
            /\ count_run' = count_record(count_args, r)
            /\ temp_file' = r.temp
    /\ count_pc' = "done"
    /\ count_args' = NoArgs
    /\ UNCHANGED <<input, index, cacheVars, schemaVars,
                 laterVars>>

(***************************************************************************)
(* Schema assembly: schema.rs, run, infer_schema_from_stats,               *)
(* build_low_cardinality_column_selector_arg, get_unique_values,           *)
(* construct_map_of_unique_values, get_required_fields,                    *)
(* generate_string_patterns, should_emit_pattern_constraint.               *)
(***************************************************************************)

\* Bounds of the schema model: the number of columns of an input and the
\* largest --enum-threshold.
MaxCols == 2
MaxThreshold == 2

ColumnTypes ==
    {"String", "Integer", "Float", "NULL", "Date", "DateTime", "Boolean"}

Names == {"a", "b"}

\* The texts of the distinct non-empty values of a column, as sequences of
\* decimal digits, in the order in which they first appear in the file: a
\* column with nvals distinct values holds the first nvals of them.
ValueTexts == << <<2>>, <<1, 0>>, <<1>>, <<3>>, <<2, 0>>, <<4>> >>

values(col) == SubSeq(ValueTexts, 1, col.nvals)

Range(s) == {s[i] : i \in DOMAIN s}

\* A column of the input: its header name, the type the stats engine infers
\* for it, the number of its distinct non-empty values, whether it has empty
\* (null) values, whether the min and max texts of its profile parse as
\* numbers of its type, and what the cardinality field of its profile
\* holds: a number, nothing, or a text that is no number.
\* Columns for the enum miner and the pattern synthesizer: names may repeat,
\* and a column has one value, as many as the largest threshold, or one more.
MinedColumn ==
    [name : Names, typ : {"String", "Integer", "Date"},
     nvals : {1, MaxThreshold, MaxThreshold + 1},
     nulls : {FALSE}, num_ok : {TRUE}, card : {"number"}]

\* Inputs of several such columns, up to the renaming of the columns.
MinedInputs ==
    UNION {{cols \in [1..n -> MinedColumn] : cols[1].name = "a"} :
              n \in 1..MaxCols}

\* Columns for the per-column rules of the assembler: every type, with and
\* without nulls; a column without a value is of type NULL.
AssembledColumn ==
    {c \in [name : {"a"}, typ : ColumnTypes, nvals : 0..(MaxThreshold + 1),
            nulls : BOOLEAN, num_ok : BOOLEAN,
            card : {"number", "missing", "unparsable"}] :
        /\ (c.typ = "NULL") <=> (c.nvals = 0)
        /\ c.typ \notin {"Integer", "Float"} => c.num_ok}

AssembledInputs == [1..1 -> AssembledColumn]

SchemaInputs == MinedInputs \cup AssembledInputs

\* The command line: --enum-threshold, --strict-dates (set on the inputs of
\* one column, where the Date and DateTime columns are) and the columns
\* --pattern-columns selects.
SchemaArgs(cols) ==
    [enum_threshold : 1..MaxThreshold,
     strict_dates : IF cols \in AssembledInputs THEN BOOLEAN ELSE {FALSE},
     pattern_columns : SUBSET (1..Len(cols))]

\* The nullcount and cardinality fields of the column's profile.
null_count(col) == IF col.nulls THEN 1 ELSE 0

cardinality(col) == col.nvals + (IF col.nulls THEN 1 ELSE 0)

\* Lines 647-650 with a field that is missing or no number read as 1.
col_cardinality_defaults_to_one(col) ==
    IF col.card = "number" THEN cardinality(col) ELSE 1

\* Lines 647-650: a field that is missing or does not parse counts as 0.
col_cardinality(col) ==
    IF col.card = "number" THEN cardinality(col) ELSE 0

\* build_low_cardinality_column_selector_arg, lines 632-667: the 1-based
\* ordinals of the columns with 0 < cardinality <= threshold (joined with
\* commas in the code: the empty sequence is the empty string).
build_low_cardinality_column_selector_arg(cols, enum_cardinality_threshold) ==
    LET low(i) == /\ col_cardinality(cols[i]) > 0
                  /\ col_cardinality(cols[i]) <= enum_cardinality_threshold
    IN  SelectSeq([i \in 1..Len(cols) |-> i], low)

\* SelectColumns::parse and Config::selection: an empty selector selects
\* every column (lines 443 and 788-791).
selection(column_select_arg, ncols) ==
    IF column_select_arg = <<>> THEN [i \in 1..ncols |-> i]
    ELSE column_select_arg

Reverse(s) == [i \in 1..Len(s) |-> s[Len(s) + 1 - i]]

\* The frequency table of a column as the engine returns it: the distinct
\* non-empty values (flag_no_nulls), in an order that depends on the run.
most_frequent(col, reversed) ==
    IF reversed THEN Reverse(values(col)) ELSE values(col)

\* Byte-wise order of two texts.
LexLess(a, b) ==
    \E k \in 1..(Len(b)) :
        /\ \A j \in 1..(k - 1) : j <= Len(a) /\ a[j] = b[j]
        /\ \/ k = Len(a) + 1
           \/ k <= Len(a) /\ a[k] < b[k]

\* The sort of line 726 left out.
par_sort_skipped(s) == s

\* par_sort_unstable, line 726 (the values of one table are distinct).
par_sort_unstable(s) ==
    [i \in 1..Len(s) |->
        CHOOSE x \in Range(s) :
            Cardinality({y \in Range(s) : LexLess(y, x)}) = i - 1]

\* construct_map_of_unique_values, lines 708-741: one entry per header of
\* the frequency result, keyed by the header's text; a later header of the
\* same text replaces the earlier entry.
RECURSIVE construct_map_of_unique_values(_, _, _, _)
construct_map_of_unique_values(freq_csv_fields, frequency_tables, i, map) ==
    IF i > Len(freq_csv_fields) THEN map
    ELSE construct_map_of_unique_values(
             freq_csv_fields, frequency_tables, i + 1,
             (freq_csv_fields[i] :> par_sort_unstable(frequency_tables[i]))
                 @@ map)

EmptyMap == [x \in {} |-> <<>>]

\* get_unique_values, lines 671-705: the frequency engine is run on the
\* selection, whatever the selector is.
get_unique_values(cols, column_select_arg, reversed) ==
    LET sel == selection(column_select_arg, Len(cols))
        headers == [k \in 1..Len(sel) |-> cols[sel[k]].name]
        ftables == [k \in 1..Len(sel) |-> most_frequent(cols[sel[k]], reversed)]
    IN  construct_map_of_unique_values(headers, ftables, 1, EmptyMap)

\* The match of lines 311-402 with the Float arm mapped to "integer".
json_type_float_as_integer(col_type) ==
    CASE col_type = "String" -> "string"
      [] col_type = "Integer" -> "integer"
      [] col_type = "Float" -> "integer"
      [] col_type = "NULL" -> "null"
      [] col_type = "Date" -> "string"
      [] col_type = "DateTime" -> "string"
      [] OTHER -> "string"

\* The type each arm of the match of lines 311-402 pushes on type_list.
json_type(col_type) ==
    CASE col_type = "String" -> "string"
      [] col_type = "Integer" -> "integer"
      [] col_type = "Float" -> "number"
      [] col_type = "NULL" -> "null"
      [] col_type = "Date" -> "string"
      [] col_type = "DateTime" -> "string"
      [] OTHER -> "string"

\* The values of an enum list.
StringValue(text) == [kind |-> "string", text |-> text, number |-> 0]
NumberValue(n) == [kind |-> "number", text |-> <<>>, number |-> n]
NullValue == [kind |-> "null", text |-> <<>>, number |-> 0]

\* atoi_simd::parse::<i64> on a text of decimal digits.
RECURSIVE atoi(_)
atoi(text) ==
    IF text = <<>> THEN 0
    ELSE 10 * atoi(SubSeq(text, 1, Len(text) - 1)) + text[Len(text)]

\* The unwraps of lines 344-349 and 365-376 taken as never panicking.
min_max_unwrap_lenient(col) == FALSE

\* Lines 344-349 and 365-376: the unwrap of the parsed min or max of an
\* Integer or Float column panics when the text does not parse.
min_max_unwrap_panics(col) ==
    col.typ \in {"Integer", "Float"} /\ ~col.num_ok

\* The enum arms with the Integer one left out.
enum_list_of_strings_only(col, unique_values_map) ==
    IF col.name \notin DOMAIN unique_values_map THEN <<>>
    ELSE IF col.typ = "String"
         THEN [k \in DOMAIN unique_values_map[col.name] |->
                  StringValue(unique_values_map[col.name][k])]
         ELSE <<>>

\* enum_list as the String arm (lines 334-338) and the Integer arm (lines
\* 354-359) fill it; no other arm touches it.
enum_list_of(col, unique_values_map) ==
    IF col.name \notin DOMAIN unique_values_map THEN <<>>
    ELSE IF col.typ = "String"
         THEN [k \in DOMAIN unique_values_map[col.name] |->
                  StringValue(unique_values_map[col.name][k])]
         ELSE IF col.typ = "Integer"
         THEN [k \in DOMAIN unique_values_map[col.name] |->
                  NumberValue(atoi(unique_values_map[col.name][k]))]
         ELSE <<>>

\* Line 404 without its test of what type_list holds.
type_list_with_null_unguarded(type_list, col_null_count) ==
    IF col_null_count > 0 THEN Append(type_list, "null") ELSE type_list

\* Lines 404-408.
type_list_with_null(type_list, col_null_count) ==
    IF col_null_count > 0 /\ "null" \notin Range(type_list)
    THEN Append(type_list, "null") ELSE type_list

\* Lines 410-414.
enum_list_with_null(enum_list, col_null_count) ==
    IF col_null_count > 0 /\ enum_list # <<>>
    THEN Append(enum_list, NullValue) ELSE enum_list

\* The field definition of one column, lines 301-426; an empty enum is no
\* "enum" key (line 420).
field_map(col, unique_values_map, strict_dates) ==
    [type |-> type_list_with_null(<<json_type(col.typ)>>, null_count(col)),
     enum |-> enum_list_with_null(enum_list_of(col, unique_values_map),
                                  null_count(col)),
     format |-> IF strict_dates /\ col.typ = "Date" THEN "date"
                ELSE IF strict_dates /\ col.typ = "DateTime" THEN "date-time"
                ELSE "none",
     bounds |-> IF col.typ = "String" THEN "length"
                ELSE IF col.typ \in {"Integer", "Float"}
                THEN (IF col.num_ok THEN "parsed" ELSE "missing")
                ELSE "none",
     has_pattern |-> FALSE,
     pattern |-> {}]

\* Map::insert of line 429 on the insertion-ordered map of properties: a
\* key that is present keeps its place and takes the new value.
insert(map, key, value) ==
    IF \E i \in DOMAIN map : map[i].key = key
    THEN [i \in DOMAIN map |->
             IF map[i].key = key THEN [key |-> key, value |-> value]
             ELSE map[i]]
    ELSE Append(map, [key |-> key, value |-> value])

get(map, key) == map[CHOOSE i \in DOMAIN map : map[i].key = key].value

\* The loop of infer_schema_from_stats, lines 275-430.
RECURSIVE properties_loop(_, _, _, _, _)
properties_loop(cols, unique_values_map, strict_dates, i, properties_map) ==
    IF i > Len(cols) THEN properties_map
    ELSE properties_loop(
             cols, unique_values_map, strict_dates, i + 1,
             insert(properties_map, cols[i].name,
                    field_map(cols[i], unique_values_map, strict_dates)))

\* get_required_fields, lines 758-767: the keys of the map, in its order.
get_required_fields(properties_map) ==
    [i \in DOMAIN properties_map |-> properties_map[i].key]

\* should_emit_pattern_constraint, lines 850-855.
should_emit_pattern_constraint(field_def) ==
    "string" \in Range(field_def.type) /\ field_def.enum = <<>>

\* The guard of line 792 with its second test left out.
pattern_guard_empty_only(sel_len, headers_len) == sel_len = 0

\* The guard of line 792.
pattern_guard(sel_len, headers_len) ==
    sel_len = 0 \/ sel_len = headers_len

\* grex's RegExpBuilder::from(values)...build(), lines 833-839: the pattern
\* is the one of the set of test cases, in whatever order they are given.
grex(values_seq) == Range(values_seq)

\* generate_string_patterns, lines 770-847.  sel is the set of columns
\* --pattern-columns selects.  inserted is the set of columns whose values
\* went into a distinct-value set (line 815 looks the definition up by the
\* column's name), scanned tells whether the rows were read.
generate_string_patterns(cols, properties_map, sel, reversed) ==
    IF pattern_guard(Cardinality(sel), Len(cols))
    THEN [pattern_map |-> [x \in {} |-> {}], inserted |-> {},
          scanned |-> FALSE]
    ELSE LET ins == {i \in sel :
                        should_emit_pattern_constraint(
                            get(properties_map, cols[i].name))}
             value_set(h) ==
                 UNION {Range(values(cols[i])) :
                            i \in {j \in ins : cols[j].name = h}}
             from_iter(h) ==
                 LET some_order == [k \in 1..Cardinality(value_set(h)) |->
                                       CHOOSE v \in value_set(h) :
                                           Cardinality({w \in value_set(h) :
                                               LexLess(w, v)}) = k - 1]
                 IN  IF reversed THEN Reverse(some_order) ELSE some_order
         IN  [pattern_map |->
                  [h \in {cols[i].name : i \in ins} |-> grex(from_iter(h))],
              inserted |-> ins,
              scanned |-> TRUE]

\* The loop of run, lines 184-192.
attach_patterns(properties_map, pattern_map) ==
    [i \in DOMAIN properties_map |->
        IF /\ properties_map[i].key \in DOMAIN pattern_map
           /\ should_emit_pattern_constraint(properties_map[i].value)
        THEN [properties_map[i] EXCEPT
                 !.value.has_pattern = TRUE,
                 !.value.pattern = pattern_map[properties_map[i].key]]
        ELSE properties_map[i]]

\* What a run that panics leaves: nothing is written.
Panicked(selector, unique_values_map) ==
    [outcome |-> "panic", selector |-> selector, freq_invoked |-> TRUE,
     candidates |-> unique_values_map, defs |-> <<>>, properties |-> <<>>,
     required |-> <<>>, scanned |-> FALSE, inserted |-> {},
     written |-> FALSE]

\* run, lines 194-228: the required list is taken from the properties and
\* the schema document is written.
write_schema(selector, unique_values_map, defs, properties_map, patterns) ==
    [outcome |-> "ok", selector |-> selector, freq_invoked |-> TRUE,
     candidates |-> unique_values_map, defs |-> defs,
     properties |-> properties_map,
     required |-> get_required_fields(properties_map),
     scanned |-> patterns.scanned, inserted |-> patterns.inserted,
     written |-> TRUE]

\* run, lines 180-192: the patterns are synthesized and attached.
with_patterns(selector, unique_values_map, defs, properties_map, patterns) ==
    write_schema(selector, unique_values_map, defs,
                 attach_patterns(properties_map, patterns.pattern_map),
                 patterns)

\* run, lines 170-181, with the properties infer_schema_from_stats returned.
with_properties(cols, args, reversed, selector, unique_values_map, properties_map) ==
    with_patterns(selector, unique_values_map,
                  [i \in DOMAIN cols |->
                      field_map(cols[i], unique_values_map,
                                args.strict_dates)],
                  properties_map,
                  generate_string_patterns(cols, properties_map,
                                           args.pattern_columns, reversed))

\* infer_schema_from_stats, lines 262-432, with the map of unique values:
\* a panic in the loop ends the run before anything is written.
with_unique_values(cols, args, reversed, selector, unique_values_map) ==
    IF \E i \in DOMAIN cols : min_max_unwrap_panics(cols[i])
    THEN Panicked(selector, unique_values_map)
    ELSE with_properties(cols, args, reversed, selector, unique_values_map,
                         properties_loop(cols, unique_values_map,
                                         args.strict_dates, 1, <<>>))

\* infer_schema_from_stats, lines 249-259, with the selector.
with_selector(cols, args, reversed, selector) ==
    with_unique_values(cols, args, reversed, selector,
                       get_unique_values(cols, selector, reversed))

\* run, lines 130-231.  reversed is the order in which this run's
\* frequency engine and hash sets return their values.
schema(cols, args, reversed) ==
    with_selector(cols, args, reversed,
                  build_low_cardinality_column_selector_arg(
                      cols, args.enum_threshold))

\* A first invocation of `schema`, with any options.
SchemaRun ==
    /\ schema_pc = 0
    /\ \E args \in SchemaArgs(schema_input), reversed \in BOOLEAN :
          \E r \in {schema(schema_input, args, reversed)} :
             /\ schema_args' = args
             /\ schema_run' = r
    /\ schema_pc' = 1
    /\ UNCHANGED <<schema_input, schema_rerun, cacheVars, countVars,
                 laterVars>>

\* A second invocation with the same options on the same input; the
\* frequency engine and the hash sets order their values as they like.
SchemaRerun ==
    /\ schema_pc = 1
    /\ \E reversed \in BOOLEAN :
          \E r \in {schema(schema_input, schema_args, reversed)} :
             schema_rerun' = r
    /\ schema_pc' = 2
    /\ UNCHANGED <<schema_input, schema_args, schema_run, cacheVars, countVars,
                 laterVars>>

(***************************************************************************)
(* Pseudonymisation: pseudo.rs, run.                                       *)
(***************************************************************************)

\* Bounds of the pseudo model: the number of records of an input and the
\* width in bits of the unsigned counters (64 in the program).
MaxRecords == 3
CounterBits == 2

\* u64::MAX at that width.
U64Max == 2^CounterBits - 1

PseudoNames == {"Mary", "John", "Sue"}
PseudoColors == {"yellow", "blue"}

\* A record: the column to pseudonymise and another column.
PseudoRecord == [name : PseudoNames, color : PseudoColors]

PseudoInputs == UNION {[1..n -> PseudoRecord] : n \in 0..MaxRecords}

\* --start, --increment and --formatstr: the default "{}", a template with
\* one "{}", and one without.
PseudoArgs ==
    [start : 0..U64Max, increment : 0..U64Max,
     formatstr : {"{}", "ID-{}", "ID"}]

\* u64::overflowing_add, lines 140 and 177.
overflowing_add(a, b) ==
    [value |-> (a + b) % (2^CounterBits), overflowed |-> a + b > U64Max]

\* Lines 158-161: the template holds "{}" and formats.
valid_formatstr(formatstr) == formatstr # "ID"

\* to_string (line 150) and SimpleCurlyFormat.format (lines 178-181): the
\* text before "{}" and the number put in its place.
format(formatstr, n) ==
    [prefix |-> IF formatstr = "ID-{}" THEN "ID-" ELSE "", number |-> n]

\* entry(value).or_insert_with(..) replaced by an insert on every record.
insert_on_every_record(values_num, value, identifier) ==
    (value :> identifier) @@ values_num

\* entry(value).or_insert_with(..), lines 138 and 175: a value that has an
\* identifier keeps it.
or_insert_with(values_num, value, identifier) ==
    IF value \in DOMAIN values_num THEN values_num
    ELSE (value :> identifier) @@ values_num

\* util::replace_column_value, lines 150 and 191.
replace_column_value(record, new_value) ==
    [record EXCEPT !.name = new_value]

\* The loops of lines 136-153 and 171-193: overflowed is set when the
\* counter that follows the identifier just given does not fit, and the
\* run returns before it writes the record.
RECURSIVE pseudo_loop(_, _, _, _, _, _)
pseudo_loop(recs, formatstr, increment, counter, values_num, written) ==
    IF recs = <<>> THEN [outcome |-> "ok", written |-> written]
    ELSE LET value == Head(recs).name
             is_new == value \notin DOMAIN values_num
             sum == overflowing_add(counter, increment)
             values_num2 == or_insert_with(values_num, value,
                                       format(formatstr, counter))
         IN  IF is_new /\ sum.overflowed
             THEN [outcome |-> "overflow", written |-> written]
             ELSE pseudo_loop(
                      Tail(recs), formatstr, increment,
                      IF is_new THEN sum.value ELSE counter, values_num2,
                      Append(written,
                             replace_column_value(Head(recs), values_num2[value])))

\* run, lines 126-196.
pseudo(recs, args) ==
    IF ~valid_formatstr(args.formatstr)
    THEN [outcome |-> "usage", written |-> <<>>]
    ELSE pseudo_loop(recs, args.formatstr, args.increment, args.start,
                     [v \in {} |-> 0], <<>>)

\* One invocation of `qsv pseudo`, whole.
PseudoRun ==
    /\ pseudo_run.outcome = "none"
    /\ \E args \in PseudoArgs :
          \E r \in {pseudo(pseudo_input, args)} :
             pseudo_run' =
                 [outcome |-> r.outcome, written |-> r.written, args |-> args]
    /\ UNCHANGED <<pseudo_input, dirVars, raceVars,
                   cacheVars, countVars, schemaVars>>

(***************************************************************************)
(* The cache path of an input: schema.rs, get_stats_records, lines 467-468.*)
(***************************************************************************)

\* A canonical path: the file name up to its last dot and the extension
\* after it.  Three input files of one directory.
DirInputs ==
    {[stem |-> "data", ext |-> "csv"], [stem |-> "data", ext |-> "tsv"],
     [stem |-> "other", ext |-> "csv"]}

\* Path::with_extension: the extension is replaced, not appended to.
with_extension(path, extension) == [path EXCEPT !.ext = extension]

\* Lines 468 and 530.
stats_binary_encoded_path(path) == with_extension(path, "stats.csv.bin.sz")

DirCachePaths == {stats_binary_encoded_path(p) : p \in DirInputs}

\* No input has a cache; every input was last modified at time 0.
InitDirVars ==
    /\ dir_mtime = [p \in DirInputs |-> 0]
    /\ dir_cache = [q \in DirCachePaths |-> [file |-> NoCache, origin |-> {}]]
    /\ dir_run = [ran |-> FALSE]

\* An input file of the directory is modified now.
DirTouchInput ==
    /\ \E p \in DirInputs : dir_mtime' = [dir_mtime EXCEPT ![p] = clock]
    /\ UNCHANGED <<clock, input_mtime, cache, stats_run, dir_cache, dir_run,
                   countVars, schemaVars, pseudoVars, raceVars>>

\* One call of get_stats_records for the schema of one input of the
\* directory, whole; the child profiles the input it is given and succeeds.
\* origin is the input whose rows the file at the cache path was made of.
DirGetStatsRecords ==
    /\ \E p \in DirInputs :
          \E q \in {stats_binary_encoded_path(p)} :
             \E r \in {get_stats_records(dir_cache[q].file, dir_mtime[p],
                                         clock, "Schema", FALSE, TRUE)} :
                \E origin \in {IF r.spawns = 1 THEN {p}
                               ELSE dir_cache[q].origin} :
                   /\ dir_cache' =
                         [dir_cache EXCEPT
                              ![q] = [file |-> r.cache, origin |-> origin]]
                   /\ dir_run' =
                         [ran |-> TRUE, input |-> p, loaded |-> r.loaded,
                          result |-> r.result, origin |-> origin]
    /\ UNCHANGED <<clock, input_mtime, cache, stats_run, dir_mtime,
                   countVars, schemaVars, pseudoVars, raceVars>>

(***************************************************************************)
(* Concurrent `schema` invocations on one input: schema.rs,                *)
(* get_stats_records, lines 467-599, one step per file system access.      *)
(***************************************************************************)

\* The number of invocations that run at the same time.
MaxInvocations == 3

Invocations == 1..MaxInvocations

\* The shared cache file: its state as in the cache model, and the child
\* runs that hold it open for writing.
StaleRaceFile ==
    [file |-> [exists |-> TRUE, mtime |-> 0, good |-> TRUE], writers |-> {}]

\* The cache is stale (older than the input); no invocation has started.
InitRaceVars ==
    /\ race_pc = [i \in Invocations |-> "check"]
    /\ race_file = StaleRaceFile
    /\ race_got = [i \in Invocations |-> "none"]

\* What a decode yields: the profiles of the input as it is now when the
\* file was written after the input's last modification.
decoded_profiles(c, in_mtime) == IF c.mtime > in_mtime THEN "new" ELSE "old"

\* Lines 470-485 and 498: the freshness test, and which way it sends the
\* invocation.
RaceCheckMtime(i) ==
    /\ race_pc[i] = "check"
    /\ race_pc' =
          [race_pc EXCEPT
               ![i] = IF first_decode_tried(
                           stats_bin_current(race_file.file, input_mtime),
                           FALSE)
                      THEN "first_decode" ELSE "spawn"]
    /\ UNCHANGED <<race_file, race_got>>
    /\ UNCHANGED <<cacheVars, countVars, schemaVars, pseudoVars, dirVars>>

\* Lines 499-515: the decode of a cache found current; a file that does
\* not decode sends the invocation to regeneration.
RaceFirstDecode(i) ==
    /\ race_pc[i] = "first_decode"
    /\ IF race_file.file.exists /\ race_file.file.good
       THEN /\ race_pc' = [race_pc EXCEPT ![i] = "done"]
            /\ race_got' =
                  [race_got EXCEPT
                       ![i] = decoded_profiles(race_file.file, input_mtime)]
       ELSE /\ race_pc' = [race_pc EXCEPT ![i] = "spawn"]
            /\ UNCHANGED race_got
    /\ UNCHANGED race_file
    /\ UNCHANGED <<cacheVars, countVars, schemaVars, pseudoVars, dirVars>>

\* Lines 580-583: the child starts; the invocation blocks until it exits.
RaceSpawn(i) ==
    /\ race_pc[i] = "spawn"
    /\ race_pc' = [race_pc EXCEPT ![i] = "child"]
    /\ UNCHANGED <<race_file, race_got>>
    /\ UNCHANGED <<cacheVars, countVars, schemaVars, pseudoVars, dirVars>>

\* The child creates the cache file in place: the file is truncated and
\* holds part of the profiles until the child has written all of them.
ChildWriteBegin(i) ==
    /\ race_pc[i] = "child"
    /\ race_pc' = [race_pc EXCEPT ![i] = "writing"]
    /\ race_file' =
          [file |-> [exists |-> TRUE, mtime |-> clock, good |-> FALSE],
           writers |-> race_file.writers \cup {i}]
    /\ UNCHANGED race_got
    /\ UNCHANGED <<cacheVars, countVars, schemaVars, pseudoVars, dirVars>>

\* The child has written the last byte and exits: the file is whole once
\* no other child is rewriting it.  All children write the same bytes.
ChildWriteEnd(i) ==
    /\ race_pc[i] = "writing"
    /\ race_pc' = [race_pc EXCEPT ![i] = "decode"]
    /\ race_file' =
          [file |-> [exists |-> TRUE, mtime |-> clock,
                     good |-> race_file.writers \subseteq {i}],
           writers |-> race_file.writers \ {i}]
    /\ UNCHANGED race_got
    /\ UNCHANGED <<cacheVars, countVars, schemaVars, pseudoVars, dirVars>>

\* Lines 585-598: open and decode the file at the cache path.
RaceSecondDecode(i) ==
    /\ race_pc[i] = "decode"
    /\ IF second_decode(race_file.file) = "ok"
       THEN /\ race_pc' = [race_pc EXCEPT ![i] = "done"]
            /\ race_got' =
                  [race_got EXCEPT
                       ![i] = decoded_profiles(race_file.file, input_mtime)]
       ELSE /\ race_pc' = [race_pc EXCEPT ![i] = "failed"]
            /\ UNCHANGED race_got
    /\ UNCHANGED race_file
    /\ UNCHANGED <<cacheVars, countVars, schemaVars, pseudoVars, dirVars>>

(***************************************************************************)
(* The specifications.                                                     *)
(***************************************************************************)

InitCache ==
    InitCacheVars /\ InitCountVars /\ InitSchemaVars /\ InitLaterVars

NextCache ==
    \/ Tick
    \/ TouchInput
    \/ TouchCache
    \/ CorruptCache
    \/ RemoveCache
    \/ GetStatsRecords

SpecCache == InitCache /\ [][NextCache]_vars

\* Any CSV input within the bounds, with any index beside it.
InitCount ==
    /\ InitCacheVars
    /\ input \in Files
    /\ index \in Indexes(input)
    /\ temp_file = "none"
    /\ count_run = NoCountRun
    /\ count_pc = "idle"
    /\ count_args = NoArgs
    /\ InitSchemaVars
    /\ InitLaterVars

NextCount ==
    \/ CountRun
    \/ PolarsBegin
    \/ PolarsFinish

SpecCount == InitCount /\ [][NextCount]_vars

\* Any input within the bounds, before `schema` runs on it.
InitSchema ==
    /\ InitCacheVars
    /\ InitCountVars
    /\ schema_input \in SchemaInputs
    /\ schema_args = NoSchemaArgs
    /\ schema_run = NoSchemaRun
    /\ schema_rerun = NoSchemaRun
    /\ schema_pc = 0
    /\ InitLaterVars

NextSchema ==
    \/ SchemaRun
    \/ SchemaRerun

SpecSchema == InitSchema /\ [][NextSchema]_vars

\* Any input within the bounds, before `pseudo` runs on it.
InitPseudo ==
    /\ InitCacheVars
    /\ InitCountVars
    /\ InitSchemaVars
    /\ pseudo_input \in PseudoInputs
    /\ pseudo_run = [outcome |-> "none"]
    /\ dir_mtime = <<>>
    /\ dir_cache = <<>>
    /\ dir_run = [ran |-> FALSE]
    /\ race_pc = <<>>
    /\ race_file = [state |-> "none"]
    /\ race_got = <<>>

NextPseudo == PseudoRun

SpecPseudo == InitPseudo /\ [][NextPseudo]_vars

\* A directory of inputs without caches; time passes, inputs are modified
\* and `schema` runs on any of them.
InitDir ==
    /\ clock = 0
    /\ input_mtime = 0
    /\ cache = NoCache
    /\ stats_run = NoStatsRun
    /\ InitCountVars
    /\ InitSchemaVars
    /\ pseudo_input = <<>>
    /\ pseudo_run = [outcome |-> "none"]
    /\ InitDirVars
    /\ race_pc = <<>>
    /\ race_file = [state |-> "none"]
    /\ race_got = <<>>

NextDir == Tick \/ DirTouchInput \/ DirGetStatsRecords

SpecDir == InitDir /\ [][NextDir]_vars

\* Invocations that start together on an input modified after its cache
\* was written.
InitRace ==
    /\ clock = MaxTime
    /\ input_mtime = MaxTime - 1
    /\ cache = NoCache
    /\ stats_run = NoStatsRun
    /\ InitCountVars
    /\ InitSchemaVars
    /\ pseudo_input = <<>>
    /\ pseudo_run = [outcome |-> "none"]
    /\ dir_mtime = <<>>
    /\ dir_cache = <<>>
    /\ dir_run = [ran |-> FALSE]
    /\ InitRaceVars

NextRace ==
    \E i \in Invocations :
        \/ RaceCheckMtime(i)
        \/ RaceFirstDecode(i)
        \/ RaceSpawn(i)
        \/ ChildWriteBegin(i)
        \/ ChildWriteEnd(i)
        \/ RaceSecondDecode(i)

SpecRace == InitRace /\ [][NextRace]_vars

(***************************************************************************)
(* Properties of the profile cache, checked under SpecCache.               *)
(***************************************************************************)

\* C1 as stated: in a Schema-mode call the cache is decoded and reused,
\* with no regeneration run, if and only if the cache file exists, is
\* strictly newer than the input and force is not set; in every other case
\* a regeneration run is spawned.
C1_ReusedIffCurrentAndUnforced ==
    (stats_run.ran /\ stats_run.mode = "Schema") =>
        LET usable == /\ stats_run.exists
                      /\ stats_run.cmp = "newer"
                      /\ ~stats_run.force
        IN  /\ (stats_run.loaded /\ stats_run.spawns = 0) <=> usable
            /\ ~usable => stats_run.spawns = 1

\* C1 (amended): a call that gets past the early return of modes None and
\* Frequency reuses the cache, with no regeneration run, if and only if the
\* cache file exists, is strictly newer than the input, force is not set
\* and the cache decodes; in every other such case exactly one regeneration
\* run is spawned; a call that returns early spawns none.
C1_ReusedIffCurrentUnforcedDecodable ==
    stats_run.ran =>
        LET current == stats_run.exists /\ stats_run.cmp = "newer"
            reaches == \/ stats_run.mode \in {"Schema", "FrequencyForceStats"}
                       \/ (stats_run.mode = "Frequency" /\ current)
            usable == current /\ ~stats_run.force /\ stats_run.good
        IN  /\ (stats_run.loaded /\ stats_run.spawns = 0)
                    <=> (reaches /\ usable)
            /\ stats_run.spawns = 1 <=> (reaches /\ ~usable)
            /\ stats_run.spawns \in {0, 1}

\* C1 witness: a Schema-mode call has reused a current, decodable cache.
C1_Witness ==
    /\ stats_run.ran
    /\ stats_run.mode = "Schema"
    /\ stats_run.exists
    /\ stats_run.cmp = "newer"
    /\ ~stats_run.force
    /\ stats_run.loaded
    /\ stats_run.spawns = 0
    /\ stats_run.result = "ok"

\* C2: in mode Schema a current cache that fails to decode triggers exactly
\* one regeneration run and a second decode; the call fails only when that
\* second decode fails, which is when the run wrote no decodable cache.
C2_DecodeFailureRegeneratesOnce ==
    (/\ stats_run.ran
     /\ stats_run.mode = "Schema"
     /\ stats_run.exists
     /\ stats_run.cmp = "newer"
     /\ ~stats_run.force
     /\ ~stats_run.good) =>
        /\ ~stats_run.loaded
        /\ stats_run.spawns = 1
        /\ stats_run.decodes = 2
        /\ stats_run.result \in {"ok", "err_decode"}
        /\ stats_run.result = "err_decode" <=> ~stats_run.child_ok

\* C2 witness: a current, undecodable cache was regenerated and the second
\* decode succeeded.
C2_Witness ==
    /\ stats_run.ran
    /\ stats_run.mode = "Schema"
    /\ stats_run.exists
    /\ stats_run.cmp = "newer"
    /\ ~stats_run.force
    /\ ~stats_run.good
    /\ stats_run.decodes = 2
    /\ stats_run.result = "ok"

(***************************************************************************)
(* Properties of the record counter, checked under SpecCount.              *)
(***************************************************************************)

\* C3: an engine failure at any stage makes polars_count_input fall back
\* to the streaming scan, and is never returned to the caller as an error.
C3_EngineFailureFallsBack ==
    (count_run.ran /\ count_run.engine \in EngineFailures) =>
        /\ count_run.scans = 1
        /\ count_run.err # "engine"

\* C4: for a fixed input and header setting, whichever branch produces the
\* count (index, engine with its fallbacks, streaming scan; files, standard
\* input and empty inputs), it is the number of records of the input.
C4_CountingEquivalence ==
    (count_run.ran /\ count_run.ok /\ ~count_run.width) =>
        count_run.count = Len(Records(input, count_run.no_headers))

\* C5: whenever width or flexible is set the result comes from one
\* streaming scan, whatever index and engine are there; the index and
\* engine branches return width 0, so a width only ever comes from a scan
\* that was asked for it.
C5_WidthOrFlexibleAlwaysScans ==
    count_run.ran =>
        /\ (count_run.width \/ count_run.flexible) =>
                /\ count_run.branch = "scan"
                /\ count_run.scans = 1
                /\ count_run.engine = "none"
        /\ count_run.branch \in {"index", "polars"} => count_run.width_out = 0
        /\ count_run.width_out # 0 =>
                (count_run.width /\ count_run.branch = "scan")

\* C5 witness: a width run next to a fresh index and an enabled engine was
\* answered by the scan, with a width.
C5_Witness ==
    /\ count_run.ran
    /\ count_run.width
    /\ ~count_run.stdin
    /\ index.status = "fresh"
    /\ ~count_run.polars_off
    /\ count_run.branch = "scan"
    /\ count_run.width_out > 0

\* C6: with neither width nor flexible set, a fresh index answers with its
\* stored count and neither the engine nor the scan runs; a stale index is
\* treated as absent: the selection goes on to the engine or the scan.
C6_FreshIndexWins ==
    (count_run.ran /\ ~count_run.width /\ ~count_run.flexible
        /\ ~count_run.stdin) =>
        /\ index.status = "fresh" =>
                /\ count_run.branch = "index"
                /\ count_run.ok
                /\ count_run.count = idx_count(index, count_run.no_headers)
                /\ count_run.scans = 0
                /\ count_run.engine = "none"
        /\ index.status = "stale" =>
                /\ count_run.branch \in {"scan", "polars"}
                /\ count_run.branch = "scan" <=> count_run.polars_off

\* C6 witness: a fresh index answered although the engine was enabled.
C6_Witness ==
    /\ count_run.ran
    /\ ~count_run.width
    /\ ~count_run.flexible
    /\ ~count_run.polars_off
    /\ index.status = "fresh"
    /\ count_run.branch = "index"
    /\ count_run.count > 0

\* C7: for a file declared to have no header row, the engine branch
\* reports the file's number of rows, whichever path through
\* polars_count_input produced the number.
C7_NoHeaderCompensatedOnce ==
    (/\ count_run.ran
     /\ count_run.branch = "polars"
     /\ count_run.no_headers
     /\ ~count_run.stdin
     /\ count_run.ok) =>
        count_run.count = Len(input)

\* C8: the streaming scan returns the number of records it read, the same
\* with and without width, 0 for an input with no records.
C8_ScanCountsRecords ==
    (count_run.ran /\ count_run.branch = "scan" /\ count_run.ok) =>
        count_run.count = Len(Records(input, count_run.no_headers))

\* C9: the reported width is the maximum over the scanned rows of the
\* row's field bytes plus the delimiters of that same row.
C9_WidthIsMaxRowWidth ==
    (count_run.ran /\ count_run.width /\ count_run.ok) =>
        LET recs == Records(input, count_run.no_headers)
            row_width(r) == r.nb + (r.nf - 1)
        IN  /\ recs = <<>> => count_run.width_out = 0
            /\ recs # <<>> =>
                /\ \E i \in DOMAIN recs :
                        count_run.width_out = row_width(recs[i])
                /\ \A i \in DOMAIN recs :
                        count_run.width_out >= row_width(recs[i])

\* C10: when the engine branch reads standard input, the temporary file
\* exists throughout the query and is gone once polars_count_input has
\* returned, on every path.
C10_TempFileRemovedOnReturn ==
    /\ (count_pc = "query" /\ count_args.stdin) => temp_file = "exists"
    /\ (count_pc = "done" /\ count_run.branch = "polars" /\ count_run.stdin)
            => temp_file = "removed"

(***************************************************************************)
(* Properties of schema assembly, checked under SpecSchema.                *)
(***************************************************************************)

\* The `schema` invocation has written its document.
Written == schema_pc >= 1 /\ schema_run.written

\* The definition the written document holds under the name of column i.
FinalDef(i) == get(schema_run.properties, schema_input[i].name)

\* C11: for an input of N columns the required list has exactly N entries,
\* one per column, in header order, whatever the columns' names and null
\* counts are.
C11_RequiredListsEveryColumn ==
    Written =>
        schema_run.required =
            [i \in DOMAIN schema_input |-> schema_input[i].name]

\* C12: the type list of every assembled column holds "null" exactly once
\* when the column's null count is above 0 (also for the NULL type, mapped
\* to "null" already), and has nothing appended when the null count is 0.
C12_NullInTypeListExactlyOnce ==
    Written =>
        \A i \in DOMAIN schema_input :
            LET type_list == schema_run.defs[i].type
                nulls == {k \in DOMAIN type_list : type_list[k] = "null"}
            IN  /\ null_count(schema_input[i]) > 0 => Cardinality(nulls) = 1
                /\ null_count(schema_input[i]) = 0 => Len(type_list) = 1

C12_Witness ==
    /\ Written
    /\ \E i \in DOMAIN schema_input :
          /\ schema_input[i].typ = "NULL"
          /\ null_count(schema_input[i]) > 0
          /\ schema_run.defs[i].type = <<"null">>

\* C13: with threshold T, a String column of cardinality exactly T gets an
\* enum list of exactly T values and a String column of cardinality T + 1
\* gets no enum list.
C13_EnumAtThresholdNoneAbove ==
    Written =>
        \A i \in DOMAIN schema_input :
            (schema_input[i].typ = "String" /\ ~schema_input[i].nulls) =>
                /\ col_cardinality(schema_input[i])
                       = schema_args.enum_threshold
                       => Len(schema_run.defs[i].enum)
                              = schema_args.enum_threshold
                /\ col_cardinality(schema_input[i])
                       = schema_args.enum_threshold + 1
                       => schema_run.defs[i].enum = <<>>

\* C14: when no column has a cardinality in (0, threshold], the selector
\* is empty, the frequency engine is not invoked, the map of unique values
\* is empty and no column of the schema has an enum.
C14_EmptySelectionDoesNoWork ==
    (schema_pc >= 1 /\ schema_run.selector = <<>>) =>
        /\ ~schema_run.freq_invoked
        /\ DOMAIN schema_run.candidates = {}
        /\ schema_run.written =>
               \A i \in DOMAIN schema_run.properties :
                   schema_run.properties[i].value.enum = <<>>

C16_PatternOnlyForSelectedStrings ==
    Written =>
        \A i \in DOMAIN schema_input :
            /\ FinalDef(i).has_pattern =>
                  /\ i \in schema_args.pattern_columns
                  /\ "string" \in Range(schema_run.defs[i].type)
                  /\ schema_run.defs[i].enum = <<>>
            /\ (\/ schema_run.defs[i].enum # <<>>
                \/ "string" \notin Range(schema_run.defs[i].type))
                   => i \notin schema_run.inserted

\* C17: a second run on the same input with the same options writes the
\* same document: the same properties with the same enum lists and
\* patterns, and the same required list, in the same order.
C17_RerunWritesTheSameDocument ==
    schema_pc = 2 =>
        /\ schema_rerun.outcome = schema_run.outcome
        /\ schema_rerun.written = schema_run.written
        /\ schema_rerun.properties = schema_run.properties
        /\ schema_rerun.required = schema_run.required

C17_Witness ==
    /\ schema_pc = 2
    /\ schema_rerun.written
    /\ \E i \in DOMAIN schema_rerun.properties :
          Len(schema_rerun.properties[i].value.enum) > 1
    /\ \E i \in DOMAIN schema_rerun.properties :
          /\ schema_rerun.properties[i].value.has_pattern
          /\ Cardinality(schema_rerun.properties[i].value.pattern) > 1

\* The numbers parsed from the candidate texts of column i, then the null
\* value if the column has nulls.
ParsedCandidates(i) ==
    LET texts == schema_run.candidates[schema_input[i].name]
    IN  enum_list_with_null([k \in DOMAIN texts |-> NumberValue(atoi(texts[k]))],
                            null_count(schema_input[i]))

HasCandidates(i) ==
    /\ schema_input[i].name \in DOMAIN schema_run.candidates
    /\ schema_run.candidates[schema_input[i].name] # <<>>

\* C18 as stated: every Integer or Float column that has an enum candidate
\* set carries an enum list of the numbers parsed from the set's texts.
C18_NumericEnumForIntegerAndFloat ==
    Written =>
        \A i \in DOMAIN schema_input :
            (schema_input[i].typ \in {"Integer", "Float"} /\ HasCandidates(i))
                => schema_run.defs[i].enum = ParsedCandidates(i)

\* C18: every Integer column that has an enum candidate set carries an
\* enum list of the numbers parsed from the set's texts; a Float column
\* carries no enum list.
C18_NumericEnumForIntegerOnly ==
    Written =>
        \A i \in DOMAIN schema_input :
            /\ (schema_input[i].typ = "Integer" /\ HasCandidates(i))
                   => schema_run.defs[i].enum = ParsedCandidates(i)
            /\ schema_input[i].typ = "Float"
                   => schema_run.defs[i].enum = <<>>

C18_Witness ==
    /\ Written
    /\ \E i \in DOMAIN schema_input :
          /\ schema_input[i].typ = "Integer"
          /\ HasCandidates(i)
          /\ Len(schema_run.defs[i].enum) > 1
          /\ NumberValue(10) \in Range(schema_run.defs[i].enum)

\* C19: when the min or max text of an Integer or Float column does not
\* parse, the run aborts and writes no schema document; a written document
\* has the parsed bounds of every such column.
C19_UnparsableBoundAborts ==
    schema_pc >= 1 =>
        /\ (\E i \in DOMAIN schema_input :
               /\ schema_input[i].typ \in {"Integer", "Float"}
               /\ ~schema_input[i].num_ok)
               => /\ schema_run.outcome = "panic"
                  /\ ~schema_run.written
                  /\ schema_run.properties = <<>>
        /\ schema_run.written =>
               \A i \in DOMAIN schema_input :
                   schema_input[i].typ \in {"Integer", "Float"}
                       => schema_run.defs[i].bounds = "parsed"

C19_Witness ==
    /\ schema_pc >= 1
    /\ \E i \in DOMAIN schema_input :
          schema_input[i].typ = "Float" /\ ~schema_input[i].num_ok
    /\ schema_run.outcome = "panic"

\* C20: the first entry of every column's type list follows the table
\* String -> string, Integer -> integer, Float -> number, NULL -> null,
\* Date -> string, DateTime -> string; any other type gives "string" and
\* the run goes on to write the document.
C20_FirstTypeFollowsTable ==
    LET table == [String |-> "string", Integer |-> "integer",
                  Float |-> "number", NULL |-> "null", Date |-> "string",
                  DateTime |-> "string"]
    IN  /\ Written =>
               \A i \in DOMAIN schema_input :
                   schema_run.defs[i].type[1] =
                       IF schema_input[i].typ \in DOMAIN table
                       THEN table[schema_input[i].typ] ELSE "string"
        /\ (/\ schema_pc >= 1
            /\ \E i \in DOMAIN schema_input :
                   schema_input[i].typ \notin DOMAIN table)
               => schema_run.written

C20_Witness ==
    /\ Written
    /\ \E i \in DOMAIN schema_input :
          /\ schema_input[i].typ = "Boolean"
          /\ schema_run.defs[i].type[1] = "string"

(***************************************************************************)
(* Further properties of the selector, the scan and the profile cache.     *)
(***************************************************************************)

\* C23 (under SpecSchema): the selector lists, as 1-based ordinals in
\* ascending order and without duplicates, exactly the columns whose
\* profile cardinality c is a number with 0 < c <= threshold; a
\* cardinality of 0, a missing one and one that does not parse are left out.
C23_SelectorListsLowCardinalityColumns ==
    schema_pc >= 1 =>
        LET sel == schema_run.selector
            low == {i \in DOMAIN schema_input :
                       /\ schema_input[i].card = "number"
                       /\ cardinality(schema_input[i]) > 0
                       /\ cardinality(schema_input[i])
                              <= schema_args.enum_threshold}
        IN  /\ Range(sel) = low
            /\ \A j, k \in DOMAIN sel : j < k => sel[j] < sel[k]

C23_Witness ==
    /\ schema_pc >= 1
    /\ \E i \in DOMAIN schema_input :
          /\ schema_input[i].card = "unparsable"
          /\ cardinality(schema_input[i]) > 0
          /\ cardinality(schema_input[i]) <= schema_args.enum_threshold
          /\ i \notin Range(schema_run.selector)

\* C24 (under SpecCount): with width requested the scan returns the
\* largest record byte length over all records plus the delimiter count of
\* the first record (its number of fields minus 1, not below 0), and the
\* running maximum never decreases from one record to the next.
C24_WidthIsMaxLengthPlusFirstDelimiters ==
    (count_run.ran /\ count_run.width /\ count_run.ok) =>
        LET recs == Records(input, count_run.no_headers)
            longest == IF recs = <<>> THEN 0
                       ELSE CHOOSE m \in {recs[i].nb : i \in DOMAIN recs} :
                                \A i \in DOMAIN recs : recs[i].nb <= m
            delimiters == IF recs = <<>> \/ recs[1].nf = 0 THEN 0
                          ELSE recs[1].nf - 1
            running(k) ==
                width_loop(SubSeq(recs, 2, k), 1, recs[1].nb).max_width
        IN  /\ count_run.width_out = longest + delimiters
            /\ \A k \in 1..(Len(recs) - 1) : running(k) <= running(k + 1)

C24_Witness ==
    /\ count_run.ran
    /\ count_run.width
    /\ count_run.ok
    /\ LET recs == Records(input, count_run.no_headers)
       IN  /\ Len(recs) > 1
           /\ recs[2].nb > recs[1].nb
           /\ recs[2].nf # recs[1].nf
           /\ count_run.width_out = recs[2].nb + recs[1].nf - 1

\* C26 (under SpecCache): a call that takes the regeneration path returns
\* profiles only from a cache its regeneration run wrote; when the child
\* run fails and writes nothing, the call fails.
C26_FailedChildFailsTheCall ==
    (stats_run.ran /\ stats_run.spawns = 1 /\ ~stats_run.child_ok) =>
        stats_run.result # "ok"

(***************************************************************************)
(* Properties of pseudonymisation, checked under SpecPseudo.               *)
(***************************************************************************)

\* The number of distinct values that come before the first occurrence of
\* the value of record j.
DistinctBefore(j) ==
    LET first == CHOOSE i \in 1..j :
                     /\ pseudo_input[i].name = pseudo_input[j].name
                     /\ \A h \in 1..(i - 1) :
                            pseudo_input[h].name # pseudo_input[j].name
    IN  Cardinality({pseudo_input[h].name : h \in 1..(first - 1)})

\* The identifier of record j, as a number of any size.
IdentifierOf(j) ==
    pseudo_run.args.start + DistinctBefore(j) * pseudo_run.args.increment

\* C22: every written record stands at the place of its input record, with
\* the other column unchanged and the selected column replaced by the
\* format string applied to start + k * increment, k being the number of
\* distinct values before the value's first occurrence; a run that ends
\* without an error has written as many records as it read.
C22_SameValueSameIdentifier ==
    pseudo_run.outcome # "none" =>
        /\ Len(pseudo_run.written) <= Len(pseudo_input)
        /\ pseudo_run.outcome = "ok" =>
               Len(pseudo_run.written) = Len(pseudo_input)
        /\ \A j \in DOMAIN pseudo_run.written :
               /\ pseudo_run.written[j].color = pseudo_input[j].color
               /\ pseudo_run.written[j].name =
                      format(pseudo_run.args.formatstr, IdentifierOf(j))

C22_Witness ==
    /\ pseudo_run.outcome = "ok"
    /\ pseudo_run.args.formatstr = "ID-{}"
    /\ pseudo_run.args.increment > 0
    /\ Len(pseudo_input) = 3
    /\ pseudo_input[1].name = pseudo_input[3].name
    /\ pseudo_input[1].name # pseudo_input[2].name
    /\ pseudo_run.written[3].name = pseudo_run.written[1].name
    /\ pseudo_run.written[2].name.number
           = pseudo_run.args.start + pseudo_run.args.increment

\* C27: the overflow error is returned exactly when some value needs an
\* identifier above u64::MAX; every record up to which all identifiers fit
\* is written, the one with the last representable identifier included,
\* and no written identifier is a wrapped-around value.
C27_OverflowOnlyBeyondU64Max ==
    pseudo_run.outcome \in {"ok", "overflow"} =>
        /\ pseudo_run.outcome = "overflow" <=>
               \E j \in DOMAIN pseudo_input : IdentifierOf(j) > U64Max
        /\ \A j \in DOMAIN pseudo_input :
               (\A i \in 1..j : IdentifierOf(i) <= U64Max)
                   => j \in DOMAIN pseudo_run.written
        /\ \A j \in DOMAIN pseudo_run.written :
               pseudo_run.written[j].name.number = IdentifierOf(j)

(***************************************************************************)
(* Properties of the cache path, checked under SpecDir.                    *)
(***************************************************************************)

\* C25: the Column Profiles a call returns for an input were made by
\* profiling that input: a cache written for one file of a directory is
\* never taken as fresh for another file.
C25_CacheBelongsToItsInput ==
    (dir_run.ran /\ dir_run.result = "ok") =>
        dir_run.origin = {dir_run.input}

(***************************************************************************)
(* Properties of concurrent invocations, checked under SpecRace.           *)
(***************************************************************************)

\* C21: under every interleaving no invocation fails, and an invocation
\* that completes has the profiles a solo invocation gets, those of the
\* input as it is now.
C21_RaceIsBenign ==
    \A i \in Invocations :
        /\ race_pc[i] # "failed"
        /\ race_pc[i] = "done" => race_got[i] = "new"

====
